---- MODULE Spec2Model ----
(***************************************************************************)
(* Verification model of two parts of the solver:                          *)
(*   - the CscMatrix assembly primitives                                   *)
(*       crates/algebra/native/cscmatrix.rs                                *)
(*   - DefaultSolution                                                     *)
(*       src/solver/implementations/default/solution.rs                    *)
(* Arrays are 0-indexed functions, as in the source.  usize arithmetic is  *)
(* modelled on integer representatives modulo 2^64: a negative             *)
(* representative -k stands for the wrapped value 2^64 - k, which a build  *)
(* without overflow checks produces and a build with overflow checks       *)
(* turns into a panic.                                                     *)
(***************************************************************************)
EXTENDS Integers, Sequences, FiniteSets, TLC

\* ---------------------------------------------------------------- bounds
\* largest number of columns of the assembled matrix
MaxN == 3
\* largest capacity passed to spalloc
MaxNnz == 4
\* largest row/column count of a source matrix M placed as a block
MaxMDim == 2
\* largest number of block placements in one assembly
MaxBlocks == 2
\* largest initrow / firstrow argument
MaxRow == 0
\* largest primal / dual dimension of a DefaultSolution
MaxDim == 2
\* largest number of iterates kept in the histories
MaxHist == 1

\* calls made on one PyDefaultSolver
MaxCalls == 2

\* colcount_missing_diag calls made when no other call is
MaxDiagBlocks == 1

VARIABLES
    m, n,               \* CscMatrix.m, CscMatrix.n of the assembled matrix
    colptr,             \* CscMatrix.colptr : 0..n -> usize
    rowval,             \* CscMatrix.rowval : 0..nnz-1 -> usize
    nzval,              \* CscMatrix.nzval  : 0..nnz-1 -> T
    overflow_checks,    \* TRUE: integer overflow panics; FALSE: it wraps
    phase,              \* "count" | "fill" | "done" | "panic" | "sol" | "py"
    plan,               \* the block placements a fixed layout is to make (KKT), else << >>
    blocks,             \* the block placements made, in colcount order
    counted,            \* counted[b]: what the colcount call of block b added to colptr
    counts,             \* colptr as colcount_to_colptr found it
    pending,            \* blocks whose fill call has not run yet
    maps,               \* maps[b]: the reverse map the fill call of block b filled in
    log,                \* every write of a fill call: [blk, col, row, dest, adv, kidx]
    solution,           \* the solver's DefaultSolution: a record of its fields
    data,               \* the solver's DefaultProblemData: equilibration and presolver
    infeasible,         \* the statuses of which SolverStatus::is_infeasible() holds
    last,               \* the last call on the solution, with its arguments
    py                  \* the Python side: the PyDefaultSolver object and its last call

csc_vars == <<m, n, colptr, rowval, nzval, overflow_checks, phase, plan, blocks,
              counted, counts, pending, maps, log>>

sol_vars == <<solution, data, infeasible, last>>

vars == <<csc_vars, sol_vars, py>>

\* ------------------------------------------------------------ vectors
Vec(len, v) == [i \in 0..(len - 1) |-> v]

VLen(f) == Cardinality(DOMAIN f)

RECURSIVE SumTo(_, _)
\* f[0] + ... + f[k-1]
SumTo(f, k) == IF k <= 0 THEN 0 ELSE SumTo(f, k - 1) + f[k - 1]

\* unsigned order on representatives: a negative representative is a wrapped,
\* huge value
ULeq(a, b) ==
    IF a >= 0 /\ b >= 0 THEN a <= b
    ELSE IF a < 0 /\ b < 0 THEN a <= b
    ELSE b < 0

\* ------------------------------------------------------ source matrices
\* the canonical CSC matrix of shape mm x nn with the entries S (row, column),
\* entry j carrying the value j + 1
FromPattern(mm, nn, S) ==
    LET before(p) == {q \in S : q[2] < p[2] \/ (q[2] = p[2] /\ q[1] < p[1])}
        at(j) == CHOOSE p \in S : Cardinality(before(p)) = j
    IN [m |-> mm, n |-> nn,
        colptr |-> [c \in 0..nn |-> Cardinality({q \in S : q[2] < c})],
        rowval |-> [j \in 0..(Cardinality(S) - 1) |-> at(j)[1]],
        nzval |-> [j \in 0..(Cardinality(S) - 1) |-> j + 1]]

Mats ==
    UNION {{FromPattern(mm, nn, S) : S \in SUBSET ((0..(mm - 1)) \X (0..(nn - 1)))} :
           <<mm, nn>> \in (1..MaxMDim) \X (1..MaxMDim)}

\* column of the stored entry j of M
ColOf(M, j) == CHOOSE i \in 0..(M.n - 1) : M.colptr[i] <= j /\ j < M.colptr[i + 1]

IsTriu(M) == \A j \in DOMAIN M.rowval : M.rowval[j] <= ColOf(M, j)

TriuMats == {M \in Mats : M.m = M.n /\ IsTriu(M)}

NoMat == [m |-> 0, n |-> 0, colptr |-> Vec(1, 0), rowval |-> Vec(0, 0), nzval |-> Vec(0, 0)]

\* ---------------------------------------------------------------- spalloc
spalloc(mm, nn, nnz) ==
    [m |-> mm, n |-> nn,
     colptr |-> [c \in 0..nn |-> IF c = nn THEN nnz + 1 ELSE 0],
     rowval |-> Vec(nnz, 0),
     nzval |-> Vec(nnz, 0)]

\* ------------------------------------------------------- phase I: colcount
\* a colcount call returns [ok, colptr]; ok = FALSE is a panic
Counted(cp) == [ok |-> TRUE, colptr |-> cp]

CountPanic(cp) == [ok |-> FALSE, colptr |-> cp]

colcount_dense_triangle(cp, initcol, blockcols, shape) ==
    IF initcol + blockcols > VLen(cp) THEN CountPanic(cp)
    ELSE Counted([c \in DOMAIN cp |->
            IF c >= initcol /\ c < initcol + blockcols
            THEN cp[c] + (IF shape = "Triu" THEN (c - initcol) + 1
                          ELSE blockcols - (c - initcol))
            ELSE cp[c]])

colcount_diag(cp, initcol, blockcols) ==
    IF initcol + blockcols > VLen(cp) THEN CountPanic(cp)
    ELSE Counted([c \in DOMAIN cp |->
            IF c >= initcol /\ c < initcol + blockcols THEN cp[c] + 1 ELSE cp[c]])

\* column i of M is empty, or its last stored row is not i
MissingDiagAt(M, i) ==
    \/ M.colptr[i] = M.colptr[i + 1]
    \/ M.rowval[M.colptr[i + 1] - 1] # i

\* a count of every column of M, as colcount_diag would make
colcount_missing_diag_every_column(cp, M, initcol) == colcount_diag(cp, initcol, M.n)

colcount_missing_diag(cp, M, initcol) ==
    IF VLen(M.colptr) # M.n + 1 \/ ~(VLen(cp) >= M.n + initcol) THEN CountPanic(cp)
    ELSE IF \E i \in 0..(M.n - 1) : MissingDiagAt(M, i) /\ (i + initcol) \notin DOMAIN cp
    THEN CountPanic(cp)
    ELSE Counted([c \in DOMAIN cp |->
            IF (c - initcol) \in 0..(M.n - 1) /\ MissingDiagAt(M, c - initcol)
            THEN cp[c] + 1 ELSE cp[c]])

colcount_colvec(cp, len, firstrow, firstcol) ==
    IF firstcol \notin DOMAIN cp THEN CountPanic(cp)
    ELSE Counted([cp EXCEPT ![firstcol] = @ + len])

colcount_rowvec(cp, len, firstrow, firstcol) ==
    IF firstcol + len > VLen(cp) THEN CountPanic(cp)
    ELSE Counted([c \in DOMAIN cp |->
            IF c >= firstcol /\ c < firstcol + len THEN cp[c] + 1 ELSE cp[c]])

RECURSIVE colcount_block_T(_, _, _, _, _)
\* the loop over M.rowval of the T arm, from index j on
colcount_block_T(cp, M, initcol, j, chk) ==
    IF j >= VLen(M.rowval) THEN Counted(cp)
    ELSE IF chk /\ initcol - 1 < 0 THEN CountPanic(cp)
    ELSE LET c == M.rowval[j] + (initcol - 1) IN
         IF c \notin DOMAIN cp THEN CountPanic(cp)
         ELSE colcount_block_T([cp EXCEPT ![c] = @ + 1], M, initcol, j + 1, chk)

RECURSIVE colcount_block_N(_, _, _, _, _)
\* the loop over the columns of M of the N arm, from column i on
colcount_block_N(cp, M, initcol, i, chk) ==
    IF i >= M.n THEN Counted(cp)
    ELSE IF (initcol + i) \notin DOMAIN cp \/ (i + 1) \notin DOMAIN cp THEN CountPanic(cp)
    ELSE LET d == cp[i + 1] - cp[i] IN
         IF chk /\ (d < 0 \/ cp[initcol + i] + d < 0) THEN CountPanic(cp)
         ELSE colcount_block_N([cp EXCEPT ![initcol + i] = @ + d], M, initcol, i + 1, chk)

colcount_block(cp, M, initcol, shape, chk) ==
    IF shape = "T" THEN colcount_block_T(cp, M, initcol, 0, chk)
    ELSE colcount_block_N(cp, M, initcol, 0, chk)

RECURSIVE colcount_to_colptr_loop(_, _, _)
colcount_to_colptr_loop(cp, p, currentptr) ==
    IF p >= VLen(cp) THEN cp
    ELSE colcount_to_colptr_loop([cp EXCEPT ![p] = currentptr], p + 1, currentptr + cp[p])

\* a scan that leaves the last entry, colptr[n], as it found it
colcount_to_colptr_keeps_last(cp) ==
    [colcount_to_colptr_loop(cp, 0, 0) EXCEPT ![VLen(cp) - 1] = cp[VLen(cp) - 1]]

colcount_to_colptr(cp) == colcount_to_colptr_loop(cp, 0, 0)

backshift_colptrs(cp) ==
    LET len == VLen(cp)
        rotated == [c \in DOMAIN cp |-> cp[(c + len - 1) % len]]
    IN [rotated EXCEPT ![0] = 0]

count_diagonal_entries(M) ==
    Cardinality({i \in 0..(M.n - 1) :
        M.colptr[i + 1] # M.colptr[i] /\ M.rowval[M.colptr[i + 1] - 1] = i})

\* ----------------------------------------------------------- phase II: fill
\* A fill call works on K = [ok, colptr, rowval, nzval, map, log]: the three
\* arrays of the matrix, the caller's reverse map, and the trace of its writes.
\* ok = FALSE is a panic (an index out of range).

\* the step every fill loop repeats for an entry (row, col) with value val:
\* write it at dest = colptr[col], advance the cursor colptr[adv], record dest
\* at map[kidx] (kidx = -1: the call takes no map)
Put(K, blk, col, row, val, adv, kidx) ==
    IF ~K.ok THEN K
    ELSE IF col \notin DOMAIN K.colptr THEN [K EXCEPT !.ok = FALSE]
    ELSE LET dest == K.colptr[col] IN
         IF dest \notin DOMAIN K.rowval \/ adv \notin DOMAIN K.colptr
            \/ (kidx # -1 /\ kidx \notin DOMAIN K.map)
         THEN [K EXCEPT !.ok = FALSE]
         ELSE [K EXCEPT !.rowval[dest] = row,
                        !.nzval[dest] = val,
                        !.colptr[adv] = @ + 1,
                        !.map = IF kidx = -1 THEN @ ELSE [@ EXCEPT ![kidx] = dest],
                        !.log = Append(@, [blk |-> blk, col |-> col, row |-> row,
                                           dest |-> dest, adv |-> adv, kidx |-> kidx])]

RECURSIVE fill_colvec(_, _, _, _, _, _)
\* iterations i, i+1, ..., vlength-1 of the loop
fill_colvec(K, blk, initrow, initcol, vlength, i) ==
    IF i >= vlength \/ ~K.ok THEN K
    ELSE fill_colvec(Put(K, blk, initcol, initrow + i, 0, initcol, i),
                     blk, initrow, initcol, vlength, i + 1)

RECURSIVE fill_rowvec(_, _, _, _, _, _)
fill_rowvec(K, blk, initrow, initcol, vlength, i) ==
    IF i >= vlength \/ ~K.ok THEN K
    ELSE fill_rowvec(Put(K, blk, initcol + i, initrow, 0, initcol + i, i),
                     blk, initrow, initcol, vlength, i + 1)

RECURSIVE fill_block_col(_, _, _, _, _, _, _, _)
\* the inner loop of fill_block over the entries j..jend-1 of column i of M
fill_block_col(K, blk, M, initrow, initcol, shape, i, j) ==
    IF j >= M.colptr[i + 1] \/ ~K.ok THEN K
    ELSE LET col == IF shape = "T" THEN M.rowval[j] + initcol ELSE i + initcol
             row == IF shape = "T" THEN i + initrow ELSE M.rowval[j] + initrow
         IN fill_block_col(Put(K, blk, col, row, M.nzval[j], col, j),
                           blk, M, initrow, initcol, shape, i, j + 1)

RECURSIVE fill_block(_, _, _, _, _, _, _)
\* the outer loop of fill_block over the columns i.. of M
fill_block(K, blk, M, initrow, initcol, shape, i) ==
    IF i >= M.n \/ ~K.ok THEN K
    ELSE fill_block(fill_block_col(K, blk, M, initrow, initcol, shape, i, M.colptr[i]),
                    blk, M, initrow, initcol, shape, i + 1)

RECURSIVE fill_dense_col_triu(_, _, _, _, _, _)
\* the inner loop `for row in offset..col`, from row on; kidx counts the writes
fill_dense_col_triu(K, blk, offset, col, row, kidx) ==
    IF row >= col \/ ~K.ok THEN K
    ELSE fill_dense_col_triu(Put(K, blk, col, row, 0, col, kidx),
                             blk, offset, col, row + 1, kidx + 1)

RECURSIVE fill_dense_triangle_triu(_, _, _, _, _, _)
\* the outer loop `for col in offset..(offset + blockdim)`, from col on
fill_dense_triangle_triu(K, blk, offset, blockdim, col, kidx) ==
    IF col >= offset + blockdim \/ ~K.ok THEN K
    ELSE fill_dense_triangle_triu(fill_dense_col_triu(K, blk, offset, col, offset, kidx),
                                  blk, offset, blockdim, col + 1, kidx + (col - offset))

\* _fill_dense_triangle_tril has the same body as _fill_dense_triangle_triu
fill_dense_triangle_tril(K, blk, offset, blockdim, col, kidx) ==
    fill_dense_triangle_triu(K, blk, offset, blockdim, col, kidx)

\* both arms of the match call _fill_dense_triangle_triu
fill_dense_triangle(K, blk, offset, blockdim, shape) ==
    IF shape = "Triu" THEN fill_dense_triangle_triu(K, blk, offset, blockdim, offset, 0)
    ELSE fill_dense_triangle_triu(K, blk, offset, blockdim, offset, 0)

RECURSIVE fill_diag(_, _, _, _, _)
fill_diag(K, blk, offset, blockdim, i) ==
    IF i >= blockdim \/ ~K.ok THEN K
    ELSE fill_diag(Put(K, blk, i + offset, i + offset, 0, i + offset, i),
                   blk, offset, blockdim, i + 1)

RECURSIVE fill_missing_diag(_, _, _, _, _)
\* writes at colptr[i + initcol], advances colptr[i]
fill_missing_diag(K, blk, M, initcol, i) ==
    IF i >= M.n \/ ~K.ok THEN K
    ELSE IF MissingDiagAt(M, i)
    THEN fill_missing_diag(Put(K, blk, i + initcol, i + initcol, 0, i, -1),
                           blk, M, initcol, i + 1)
    ELSE fill_missing_diag(K, blk, M, initcol, i + 1)

\* ------------------------------------------------------------ scalars T
\* A float is modelled as an exact fraction <<numerator, denominator>> in lowest
\* terms with a positive denominator; rounding is not modelled.  <<0, 0>> is NaN.
RECURSIVE Gcd(_, _)
Gcd(a, b) == IF b = 0 THEN a ELSE Gcd(b, a % b)

Rat(a) == <<a, 1>>

NaN == <<0, 0>>

IsNaN(a) == a[2] = 0

RNorm(p, q) ==
    LET g == Gcd(IF p < 0 THEN -p ELSE p, q) IN
    IF q = 0 THEN NaN ELSE <<p \div g, q \div g>>

RMul(a, b) == RNorm(a[1] * b[1], a[2] * b[2])

\* T::recip of a positive number
RRecip(a) == <<a[2], a[1]>>

RDiv(a, b) == RMul(a, RRecip(b))

\* VectorMath::hadamard and VectorMath::scale
hadamard(v, w) == [i \in DOMAIN v |-> RMul(v[i], w[i])]

scale(v, a) == [i \in DOMAIN v |-> RMul(v[i], a)]

\* ------------------------------------------------------- DefaultSolution
Statuses ==
    {"Unsolved", "Solved", "PrimalInfeasible", "DualInfeasible", "AlmostSolved",
     "AlmostPrimalInfeasible", "AlmostDualInfeasible", "MaxIterations", "MaxTime",
     "ScalingError", "NumericalError", "InsufficientProgress"}

\* SolverStatus::is_infeasible() is defined outside the sources at hand: it holds
\* of the two infeasible statuses, and of the two Almost ones or not
InfeasibleChoices ==
    {{"PrimalInfeasible", "DualInfeasible"},
     {"PrimalInfeasible", "DualInfeasible", "AlmostPrimalInfeasible",
      "AlmostDualInfeasible"}}

new(mm, nn) ==
    [x |-> Vec(nn, Rat(0)),
     z |-> Vec(mm, Rat(0)),
     s |-> Vec(mm, Rat(0)),
     status |-> "Unsolved",
     obj_val |-> NaN,
     obj_val_dual |-> NaN,
     solve_time |-> Rat(0),
     timings |-> {},
     iterations |-> 0,
     r_prim |-> NaN,
     r_dual |-> NaN,
     xhist |-> << >>,
     zhist |-> << >>,
     shist |-> << >>]

\* a reset that leaves the histories alone
reset_keeps_histories(sol) ==
    [sol EXCEPT !.status = "Unsolved",
                !.obj_val = NaN,
                !.obj_val_dual = NaN,
                !.solve_time = Rat(0),
                !.timings = {},
                !.iterations = 0,
                !.r_prim = NaN,
                !.r_dual = NaN]

reset(sol) ==
    [sol EXCEPT !.status = "Unsolved",
                !.obj_val = NaN,
                !.obj_val_dual = NaN,
                !.solve_time = Rat(0),
                !.timings = {},
                !.iterations = 0,
                !.r_prim = NaN,
                !.r_dual = NaN,
                !.xhist = << >>,
                !.zhist = << >>,
                !.shist = << >>]

\* the scaleinv of finalize and save_prev_iterate
scaleinv_of(variables, info, inf) ==
    IF info.status \in inf THEN RRecip(variables.kappa) ELSE RRecip(variables.tau)

\* a reduce_map branch that writes the kept rows only
finalize_reduced_kept_only(sol, dat, variables, scaleinv) ==
    LET map == dat.reduce_map
        kept(i) == {k \in DOMAIN map.keep_index : map.keep_index[k] = i}
        at(i) == CHOOSE k \in kept(i) : TRUE
    IN [z |-> [i \in DOMAIN sol.z |->
                 IF kept(i) = {} THEN sol.z[i]
                 ELSE RMul(RMul(variables.z[at(i)], dat.e[at(i)]), RDiv(scaleinv, dat.c))],
        s |-> [i \in DOMAIN sol.s |->
                 IF kept(i) = {} THEN sol.s[i]
                 ELSE RMul(RMul(variables.s[at(i)], dat.einv[at(i)]), scaleinv)]]

\* the branch of finalize taken with a presolve reduce_map: z and s as the izip
\* loop over the kept rows and then the loop over keep_logical leave them
finalize_reduced(sol, dat, variables, scaleinv) ==
    LET map == dat.reduce_map
        len == VLen(map.keep_index)
        kept(i) == {k \in 0..(len - 1) : map.keep_index[k] = i}
        at(i) == CHOOSE k \in kept(i) : TRUE
        z1 == [i \in DOMAIN sol.z |->
                 IF kept(i) = {} THEN sol.z[i]
                 ELSE RMul(RMul(variables.z[at(i)], dat.e[at(i)]), RDiv(scaleinv, dat.c))]
        s1 == [i \in DOMAIN sol.s |->
                 IF kept(i) = {} THEN sol.s[i]
                 ELSE RMul(RMul(variables.s[at(i)], dat.einv[at(i)]), scaleinv)]
        dropped(i) == i \in DOMAIN map.keep_logical /\ ~map.keep_logical[i]
    IN [z |-> [i \in DOMAIN sol.z |-> IF dropped(i) THEN Rat(0) ELSE z1[i]],
        s |-> [i \in DOMAIN sol.s |-> IF dropped(i) THEN dat.infbound ELSE s1[i]]]

\* objectives that keep the costs of an infeasible problem
finalize_objectives_keep_costs(info, inf) ==
    [obj_val |-> info.cost_primal, obj_val_dual |-> info.cost_dual]

\* obj_val and obj_val_dual as finalize sets them
finalize_objectives(info, inf) ==
    IF info.status \in inf THEN [obj_val |-> NaN, obj_val_dual |-> NaN]
    ELSE [obj_val |-> info.cost_primal, obj_val_dual |-> info.cost_dual]

finalize(sol, dat, variables, info, inf) ==
    LET scaleinv == scaleinv_of(variables, info, inf)
        zs == IF dat.reduce_map.some
              THEN finalize_reduced(sol, dat, variables, scaleinv)
              ELSE [z |-> scale(hadamard(variables.z, dat.e), RDiv(scaleinv, dat.c)),
                    s |-> scale(hadamard(variables.s, dat.einv), scaleinv)]
    IN [sol EXCEPT !.status = info.status,
                   !.obj_val = finalize_objectives(info, inf).obj_val,
                   !.obj_val_dual = finalize_objectives(info, inf).obj_val_dual,
                   !.x = scale(hadamard(variables.x, dat.d), scaleinv),
                   !.z = zs.z,
                   !.s = zs.s,
                   !.iterations = info.iterations,
                   !.solve_time = info.solve_time,
                   !.timings = info.timings,
                   !.r_prim = info.res_primal,
                   !.r_dual = info.res_dual]

save_prev_iterate(sol, dat, variables, info, inf) ==
    LET scaleinv == scaleinv_of(variables, info, inf) IN
    [sol EXCEPT !.obj_val = IF info.status \in inf THEN NaN ELSE @,
                !.obj_val_dual = IF info.status \in inf THEN NaN ELSE @,
                !.xhist = Append(@, scale(hadamard(variables.x, dat.d), scaleinv)),
                !.zhist = Append(@, scale(hadamard(variables.z, dat.e),
                                          RDiv(scaleinv, dat.c))),
                !.shist = Append(@, scale(hadamard(variables.s, dat.einv), scaleinv))]

\* ---------------------------------------------- the solver around a solution
\* keep_index of a presolve map: the kept rows in increasing order
KeepIndex(keep_logical) ==
    LET kept == {i \in DOMAIN keep_logical : keep_logical[i]}
        rank(i) == Cardinality({j \in kept : j < i})
    IN [k \in 0..(Cardinality(kept) - 1) |-> CHOOSE i \in kept : rank(i) = k]

NoReduceMap == [some |-> FALSE, keep_logical |-> Vec(0, TRUE), keep_index |-> Vec(0, 0)]

\* number of rows of the reduced problem of mz rows
ReducedLen(map, mz) == IF map.some THEN VLen(map.keep_index) ELSE mz

\* problem data for nx variables and mz constraints: unit equilibration, or
\* d = (2, 3, ..), e = (3, 4, ..), c = 5
MkData(nx, mz, map, scaled) ==
    LET e == [k \in 0..(ReducedLen(map, mz) - 1) |-> IF scaled THEN Rat(k + 3) ELSE Rat(1)]
    IN [d |-> [i \in 0..(nx - 1) |-> IF scaled THEN Rat(i + 2) ELSE Rat(1)],
        e |-> e,
        einv |-> [k \in DOMAIN e |-> RRecip(e[k])],
        c |-> IF scaled THEN Rat(5) ELSE Rat(1),
        reduce_map |-> map,
        infbound |-> Rat(1000)]

DataSet(nx, mz) ==
    {MkData(nx, mz, map, scaled) :
        map \in {NoReduceMap} \cup
                {[some |-> TRUE, keep_logical |-> kl, keep_index |-> KeepIndex(kl)] :
                    kl \in [0..(mz - 1) -> BOOLEAN]},
        scaled \in BOOLEAN}

\* an iterate of the problem of dat, with tau = 2 and kappa = 3
MkVars(dat) ==
    [x |-> [i \in DOMAIN dat.d |-> Rat(7 + i)],
     z |-> [k \in DOMAIN dat.e |-> Rat(11 + k)],
     s |-> [k \in DOMAIN dat.e |-> Rat(13 + k)],
     tau |-> Rat(2),
     kappa |-> Rat(3)]

\* the info of a solve that ended with status st
MkInfo(st) ==
    [status |-> st,
     cost_primal |-> Rat(17),
     cost_dual |-> Rat(19),
     iterations |-> 21,
     solve_time |-> Rat(23),
     timings |-> {<<"solve", Rat(23)>>},
     res_primal |-> <<1, 29>>,
     res_dual |-> <<1, 31>>]

NoVars == [x |-> Vec(0, NaN), z |-> Vec(0, NaN), s |-> Vec(0, NaN), tau |-> NaN, kappa |-> NaN]

NoInfo == MkInfo("Unsolved")

\* a call of the solution: its name and arguments (args: the dimensions given to
\* new), and saved: the save_prev_iterate calls since construction or the last
\* reset, each with its variables and whether its status was an infeasible one
Call(op, variables, info) ==
    [op |-> op, variables |-> variables, info |-> info, args |-> << >>, saved |-> << >>]

\* Option<T>: None is << >>, Some(v) is <<v>>
None == << >>

Some(v) == <<v>>

is_some(o) == o # None

unwrap(o) == o[1]

\* no PyDefaultSolver constructed, no call made.  obj: "none", "solver" (new gave
\* Ok) or "error" (new gave Err); validated: what settings.validate() returned;
\* inner_new: calls of DefaultSolver::new; ncalls: solve and solve_warm calls;
\* call: the last Python call; inner: the call it made on the inner solver; ret:
\* what it returned
NoPy ==
    [obj |-> "none", validated |-> None, inner_new |-> 0, ncalls |-> 0,
     call |-> [op |-> "none"], inner |-> [op |-> "none"], ret |-> None]

\* no solution in play
SolIdle ==
    /\ solution = new(0, 0)
    /\ data = MkData(0, 0, NoReduceMap, FALSE)
    /\ infeasible = {"PrimalInfeasible", "DualInfeasible"}
    /\ last = Call("none", NoVars, NoInfo)
    /\ py = NoPy

\* no assembly in play
CscIdle ==
    /\ m = 0
    /\ n = 0
    /\ colptr = spalloc(0, 0, 0).colptr
    /\ rowval = Vec(0, 0)
    /\ nzval = Vec(0, 0)
    /\ overflow_checks = TRUE
    /\ phase = "sol"
    /\ plan = << >>
    /\ blocks = << >>
    /\ counted = << >>
    /\ counts = << >>
    /\ pending = {}
    /\ maps = << >>
    /\ log = << >>

\* a solver right after DefaultSolution::new(a, b), with problem data of the
\* dimensions of the solution's vectors
InitSol ==
    /\ CscIdle
    /\ infeasible \in InfeasibleChoices
    /\ \E a \in 1..MaxDim, b \in 1..MaxDim :
          /\ solution = new(a, b)
          /\ data \in DataSet(b, a)
          /\ last = [Call("new", NoVars, NoInfo) EXCEPT !.args = <<a, b>>]
    /\ py = NoPy

Reset ==
    /\ phase = "sol"
    /\ solution' = reset(solution)
    /\ last' = Call("reset", NoVars, NoInfo)
    /\ UNCHANGED <<csc_vars, data, infeasible, py>>

Finalize ==
    /\ phase = "sol"
    /\ \E st \in Statuses :
          /\ solution' = finalize(solution, data, MkVars(data), MkInfo(st), infeasible)
          /\ last' = [Call("finalize", MkVars(data), MkInfo(st)) EXCEPT !.saved = last.saved]
    /\ UNCHANGED <<csc_vars, data, infeasible, py>>

SavePrevIterate ==
    /\ phase = "sol"
    /\ Len(solution.xhist) < MaxHist
    /\ \E st \in Statuses :
          /\ solution' = save_prev_iterate(solution, data, MkVars(data), MkInfo(st), infeasible)
          /\ last' = [Call("save_prev_iterate", MkVars(data), MkInfo(st)) EXCEPT
                          !.saved = Append(last.saved,
                                           [variables |-> MkVars(data),
                                            infeasible |-> st \in infeasible])]
    /\ UNCHANGED <<csc_vars, data, infeasible, py>>

NextSol ==
    \/ Reset
    \/ Finalize
    \/ SavePrevIterate

SpecSol == InitSol /\ [][NextSol]_vars

\* ------------------------------------------------------------- assembly
\* a block placement: the arguments shared by its colcount and its fill call
Block(kind, M, initrow, initcol, k, shape) ==
    [kind |-> kind, M |-> M, initrow |-> initrow, initcol |-> initcol, k |-> k,
     shape |-> shape]

\* length of the reverse map the caller passes to the fill call of block b
MapLen(b) ==
    CASE b.kind = "block" -> VLen(b.M.nzval)
      [] b.kind = "dense_triangle" -> (b.k * (b.k + 1)) \div 2
      [] b.kind = "missing_diag" -> 0
      [] OTHER -> b.k

Init ==
    /\ SolIdle
    /\ \E nn \in 1..MaxN, nnz \in 0..MaxNnz :
          LET K == spalloc(nn, nn, nnz) IN
          /\ m = K.m
          /\ n = K.n
          /\ colptr = K.colptr
          /\ rowval = K.rowval
          /\ nzval = K.nzval
    /\ overflow_checks \in BOOLEAN
    /\ phase = "count"
    /\ plan = << >>
    /\ blocks = << >>
    /\ counted = << >>
    /\ counts = << >>
    /\ pending = {}
    /\ maps = << >>
    /\ log = << >>

\* the outcome r of the colcount call of block b
Count(b, r) ==
    IF r.ok
    THEN /\ colptr' = r.colptr
         /\ blocks' = Append(blocks, b)
         /\ counted' = Append(counted, [c \in DOMAIN colptr |-> r.colptr[c] - colptr[c]])
         /\ UNCHANGED <<m, n, rowval, nzval, overflow_checks, phase, plan, counts, pending,
                        maps, log, sol_vars, py>>
    ELSE /\ phase' = "panic"
         /\ UNCHANGED <<m, n, colptr, rowval, nzval, overflow_checks, plan, blocks,
                        counted, counts, pending, maps, log, sol_vars, py>>

Counting == phase = "count" /\ Len(blocks) < MaxBlocks

ColcountDenseTriangle ==
    /\ Counting
    /\ \E initcol \in 0..(n - 1), shape \in {"Triu", "Tril"} :
       \E k \in 1..(n - initcol) :
          Count(Block("dense_triangle", NoMat, 0, initcol, k, shape),
                colcount_dense_triangle(colptr, initcol, k, shape))

ColcountDiag ==
    /\ Counting
    /\ \E initcol \in 0..(n - 1) :
       \E k \in 1..(n - initcol) :
          Count(Block("diag", NoMat, 0, initcol, k, "-"), colcount_diag(colptr, initcol, k))

ColcountMissingDiag ==
    /\ Counting
    /\ \E M \in TriuMats, initcol \in 0..(n - 1) :
          /\ initcol + M.n <= n
          /\ Count(Block("missing_diag", M, 0, initcol, 0, "-"),
                   colcount_missing_diag(colptr, M, initcol))

ColcountColvec ==
    /\ Counting
    /\ \E len \in 1..MaxMDim, firstrow \in 0..MaxRow, firstcol \in 0..(n - 1) :
          Count(Block("colvec", NoMat, firstrow, firstcol, len, "-"),
                colcount_colvec(colptr, len, firstrow, firstcol))

ColcountRowvec ==
    /\ Counting
    /\ \E firstrow \in 0..MaxRow, firstcol \in 0..(n - 1) :
       \E len \in 1..(n - firstcol) :
          Count(Block("rowvec", NoMat, firstrow, firstcol, len, "-"),
                colcount_rowvec(colptr, len, firstrow, firstcol))

ColcountBlock ==
    /\ Counting
    /\ \E M \in Mats, initrow \in 0..MaxRow, initcol \in 0..(n - 1), shape \in {"N", "T"} :
          /\ initcol + (IF shape = "T" THEN M.m ELSE M.n) <= n
          /\ Count(Block("block", M, initrow, initcol, 0, shape),
                   colcount_block(colptr, M, initcol, shape, overflow_checks))

ColcountToColptr ==
    /\ phase = "count"
    /\ blocks # << >>
    /\ counts' = colptr
    /\ colptr' = colcount_to_colptr(colptr)
    /\ phase' = "fill"
    /\ pending' = DOMAIN blocks
    /\ maps' = [b \in DOMAIN blocks |-> Vec(MapLen(blocks[b]), 0)]
    /\ UNCHANGED <<m, n, rowval, nzval, overflow_checks, plan, blocks, counted, log, sol_vars, py>>

\* the matrix as a fill call of block b takes it
Before(b) ==
    [ok |-> TRUE, colptr |-> colptr, rowval |-> rowval, nzval |-> nzval,
     map |-> maps[b], log |-> log]

\* the outcome K of the fill call of block b
Fill(b, K) ==
    IF K.ok
    THEN /\ colptr' = K.colptr
         /\ rowval' = K.rowval
         /\ nzval' = K.nzval
         /\ maps' = [maps EXCEPT ![b] = K.map]
         /\ log' = K.log
         /\ pending' = pending \ {b}
         /\ UNCHANGED <<m, n, overflow_checks, phase, plan, blocks, counted, counts, sol_vars, py>>
    ELSE /\ phase' = "panic"
         /\ UNCHANGED <<m, n, colptr, rowval, nzval, overflow_checks, plan, blocks,
                        counted, counts, pending, maps, log, sol_vars, py>>

FillDenseTriangle ==
    /\ phase = "fill"
    /\ \E b \in pending :
          /\ blocks[b].kind = "dense_triangle"
          /\ Fill(b, fill_dense_triangle(Before(b), b, blocks[b].initcol, blocks[b].k,
                                         blocks[b].shape))

FillDiag ==
    /\ phase = "fill"
    /\ \E b \in pending :
          /\ blocks[b].kind = "diag"
          /\ Fill(b, fill_diag(Before(b), b, blocks[b].initcol, blocks[b].k, 0))

FillMissingDiag ==
    /\ phase = "fill"
    /\ \E b \in pending :
          /\ blocks[b].kind = "missing_diag"
          /\ Fill(b, fill_missing_diag(Before(b), b, blocks[b].M, blocks[b].initcol, 0))

FillColvec ==
    /\ phase = "fill"
    /\ \E b \in pending :
          /\ blocks[b].kind = "colvec"
          /\ Fill(b, fill_colvec(Before(b), b, blocks[b].initrow, blocks[b].initcol,
                                 blocks[b].k, 0))

FillRowvec ==
    /\ phase = "fill"
    /\ \E b \in pending :
          /\ blocks[b].kind = "rowvec"
          /\ Fill(b, fill_rowvec(Before(b), b, blocks[b].initrow, blocks[b].initcol,
                                 blocks[b].k, 0))

FillBlock ==
    /\ phase = "fill"
    /\ \E b \in pending :
          /\ blocks[b].kind = "block"
          /\ Fill(b, fill_block(Before(b), b, blocks[b].M, blocks[b].initrow,
                                blocks[b].initcol, blocks[b].shape, 0))

BackshiftColptrs ==
    /\ phase = "fill"
    /\ pending = {}
    /\ colptr' = backshift_colptrs(colptr)
    /\ phase' = "done"
    /\ UNCHANGED <<m, n, rowval, nzval, overflow_checks, plan, blocks, counted, counts,
                   pending, maps, log, sol_vars, py>>

Next ==
    \/ ColcountDenseTriangle
    \/ ColcountDiag
    \/ ColcountMissingDiag
    \/ ColcountColvec
    \/ ColcountRowvec
    \/ ColcountBlock
    \/ ColcountToColptr
    \/ FillDenseTriangle
    \/ FillDiag
    \/ FillMissingDiag
    \/ FillColvec
    \/ FillRowvec
    \/ FillBlock
    \/ BackshiftColptrs

Spec == Init /\ [][Next]_vars

\* ------------------------------------------- assemblies of vectors and diagonals
\* the fill call of placement number b
FillOf(b) ==
    CASE blocks[b].kind = "block" ->
            fill_block(Before(b), b, blocks[b].M, blocks[b].initrow, blocks[b].initcol,
                       blocks[b].shape, 0)
      [] blocks[b].kind = "missing_diag" ->
            fill_missing_diag(Before(b), b, blocks[b].M, blocks[b].initcol, 0)
      [] blocks[b].kind = "diag" ->
            fill_diag(Before(b), b, blocks[b].initcol, blocks[b].k, 0)
      [] blocks[b].kind = "colvec" ->
            fill_colvec(Before(b), b, blocks[b].initrow, blocks[b].initcol, blocks[b].k, 0)
      [] blocks[b].kind = "rowvec" ->
            fill_rowvec(Before(b), b, blocks[b].initrow, blocks[b].initcol, blocks[b].k, 0)
      [] blocks[b].kind = "dense_triangle" ->
            fill_dense_triangle(Before(b), b, blocks[b].initcol, blocks[b].k,
                                blocks[b].shape)

\* the fill call of the first placement not filled yet: fills in colcount order
FillNext ==
    /\ phase = "fill"
    /\ \E b \in pending :
          /\ \A c \in pending : b <= c
          /\ Fill(b, FillOf(b))

\* the assemblies that place only column vectors, row vectors and diagonals, and
\* fill them in the order they were counted
NextScan ==
    \/ ColcountDiag
    \/ ColcountColvec
    \/ ColcountRowvec
    \/ ColcountToColptr
    \/ FillNext
    \/ BackshiftColptrs

SpecScan == Init /\ [][NextScan]_vars

\* ------------------------------------------------ upper-triangular KKT layout
\* the four placements of the layout for P (square, upper triangular) and A:
\* P at (0,0), the missing diagonal of P at column 0, A transposed at rows 0..,
\* columns P.n.., the diagonal of the (2,2) block at offset P.n
KKTPlan(P, A) ==
    << Block("block", P, 0, 0, 0, "N"),
       Block("missing_diag", P, 0, 0, 0, "-"),
       Block("block", A, 0, P.n, 0, "T"),
       Block("diag", NoMat, 0, P.n, A.m, "-") >>

\* the number of entries the layout is to hold
KKTNnz(P, A) ==
    VLen(P.nzval) + (P.n - count_diagonal_entries(P)) + VLen(A.nzval) + A.m

InitKKT ==
    /\ SolIdle
    /\ \E P \in TriuMats, A \in Mats :
          /\ A.n = P.n
          /\ LET K == spalloc(P.n + A.m, P.n + A.m, KKTNnz(P, A)) IN
             /\ m = K.m
             /\ n = K.n
             /\ colptr = K.colptr
             /\ rowval = K.rowval
             /\ nzval = K.nzval
          /\ plan = KKTPlan(P, A)
    /\ overflow_checks \in BOOLEAN
    /\ phase = "count"
    /\ blocks = << >>
    /\ counted = << >>
    /\ counts = << >>
    /\ pending = {}
    /\ maps = << >>
    /\ log = << >>

\* the colcount call of placement b
ColcountOf(b) ==
    CASE b.kind = "block" -> colcount_block(colptr, b.M, b.initcol, b.shape, overflow_checks)
      [] b.kind = "missing_diag" -> colcount_missing_diag(colptr, b.M, b.initcol)
      [] b.kind = "diag" -> colcount_diag(colptr, b.initcol, b.k)

\* the next colcount call of the layout
KKTColcount ==
    /\ phase = "count"
    /\ Len(blocks) < Len(plan)
    /\ Count(plan[Len(blocks) + 1], ColcountOf(plan[Len(blocks) + 1]))

KKTColcountToColptr ==
    /\ Len(blocks) = Len(plan)
    /\ ColcountToColptr

NextKKT ==
    \/ KKTColcount
    \/ KKTColcountToColptr
    \/ FillNext
    \/ BackshiftColptrs

SpecKKT == InitKKT /\ [][NextKKT]_vars

\* ------------------------------------------- colcount_missing_diag alone
ColcountMissingDiagOnly ==
    /\ Len(blocks) < MaxDiagBlocks
    /\ ColcountMissingDiag

NextMissingDiag == ColcountMissingDiagOnly

SpecMissingDiag == Init /\ [][NextMissingDiag]_vars

\* ------------------------------------------------------- Python interface
\* PySolverStatus: every variant with its discriminant
PySolverStatus ==
    [Unsolved |-> 0, Solved |-> 1, PrimalInfeasible |-> 2, DualInfeasible |-> 3,
     AlmostSolved |-> 4, AlmostPrimalInfeasible |-> 5, AlmostDualInfeasible |-> 6,
     MaxIterations |-> 7, MaxTime |-> 8, ScalingError |-> 9, NumericalError |-> 10,
     InsufficientProgress |-> 11]

PySolverStatus_new_from_internal(status) == PySolverStatus[status]

PyDefaultSolution_new_from_internal(result) ==
    [x |-> result.x,
     s |-> result.s,
     z |-> result.z,
     obj_val |-> result.obj_val,
     obj_val_dual |-> result.obj_val_dual,
     status |-> PySolverStatus_new_from_internal(result.status),
     solve_time |-> result.solve_time,
     iterations |-> result.iterations,
     timings |-> result.timings,
     r_prim |-> result.r_prim,
     r_dual |-> result.r_dual,
     xhist |-> result.xhist,
     zhist |-> result.zhist,
     shist |-> result.shist]

\* a constructor that builds the solver whatever validate() returned
py_new_unchecked(P, valid) == [P EXCEPT !.obj = "solver", !.inner_new = @ + 1]

\* PyDefaultSolver::new, valid: settings.validate() is Ok.  Err(PyException)
\* before DefaultSolver::new is reached, or Ok(Self { inner: solver })
py_new(P, valid) ==
    IF ~valid THEN [P EXCEPT !.obj = "error"]
    ELSE [P EXCEPT !.obj = "solver", !.inner_new = @ + 1]

\* DefaultVariables::new(n, m)
DefaultVariables_new(nn, mm) ==
    [x |-> Vec(nn, Rat(0)), s |-> Vec(mm, Rat(0)), z |-> Vec(mm, Rat(0))]

\* VectorMath::copy_from onto a vector of the same length
copy_from(dst, src) == [i \in DOMAIN dst |-> src[i]]

\* a guess whose s and z are exchanged
warm_guess_swapped(xguess, sguess, zguess) == [x |-> xguess, s |-> zguess, z |-> sguess]

\* the guess solve_warm builds from the three unwrapped vectors
warm_guess(xguess, sguess, zguess) ==
    LET guess == DefaultVariables_new(VLen(xguess), VLen(sguess))
    IN [x |-> copy_from(guess.x, xguess),
        s |-> copy_from(guess.s, sguess),
        z |-> copy_from(guess.z, zguess)]

\* the call PyDefaultSolver::solve_warm makes on the inner solver
solve_warm(xguess, sguess, zguess, mode, lambda) ==
    IF is_some(xguess) /\ is_some(sguess) /\ is_some(zguess)
    THEN [op |-> "solve_warm",
          guess |-> Some(warm_guess(unwrap(xguess), unwrap(sguess), unwrap(zguess))),
          mode |-> mode,
          lambda |-> lambda]
    ELSE [op |-> "solve"]

\* the guesses offered for a problem of nn variables and mm constraints
XGuesses(nn) == {None, Some([i \in 0..(nn - 1) |-> Rat(31 + i)])}

SGuesses(mm) == {None, Some([k \in 0..(mm - 1) |-> Rat(37 + k)])}

ZGuesses(mm) == {None, Some([k \in 0..(mm - 1) |-> Rat(41 + k)])}

Modes == {None, Some(1)}

Lambdas == {None, Some(Rat(1))}

\* statuses a solve is let end with
SolveOutcomes == {"Solved", "PrimalInfeasible", "MaxIterations"}

\* before PyDefaultSolver::new
InitPy ==
    /\ m = 0
    /\ n = 0
    /\ colptr = spalloc(0, 0, 0).colptr
    /\ rowval = Vec(0, 0)
    /\ nzval = Vec(0, 0)
    /\ overflow_checks = TRUE
    /\ phase = "py"
    /\ plan = << >>
    /\ blocks = << >>
    /\ counted = << >>
    /\ counts = << >>
    /\ pending = {}
    /\ maps = << >>
    /\ log = << >>
    /\ solution = new(0, 0)
    /\ data = MkData(0, 0, NoReduceMap, FALSE)
    /\ infeasible \in InfeasibleChoices
    /\ last = Call("none", NoVars, NoInfo)
    /\ py = NoPy

\* PyDefaultSolver::new for a problem of b variables and a constraints; the
\* inner solver it builds holds a fresh solution and the problem data
PyNew ==
    /\ phase = "py"
    /\ py.obj = "none"
    /\ \E valid \in BOOLEAN :
          /\ py' = [py_new(py, valid) EXCEPT !.call = [op |-> "new", valid |-> valid],
                                             !.validated = Some(valid)]
          /\ IF py'.obj = "solver"
             THEN \E a \in 1..MaxDim, b \in 1..MaxDim :
                     /\ solution' = new(a, b)
                     /\ data' = MkData(b, a, NoReduceMap, TRUE)
                     /\ last' = [Call("new", NoVars, NoInfo) EXCEPT !.args = <<a, b>>]
             ELSE UNCHANGED <<solution, data, last>>
    /\ UNCHANGED <<csc_vars, infeasible>>

\* the inner solver runs (inner) and ends by finalizing its solution with some
\* status; the Python call returns the conversion of that solution
InnerSolve(call, inner) ==
    /\ \E st \in SolveOutcomes :
          /\ solution' = finalize(solution, data, MkVars(data), MkInfo(st), infeasible)
          /\ last' = Call("finalize", MkVars(data), MkInfo(st))
    /\ py' = [py EXCEPT !.ncalls = @ + 1,
                        !.call = call,
                        !.inner = inner,
                        !.ret = Some(PyDefaultSolution_new_from_internal(solution'))]
    /\ UNCHANGED <<csc_vars, data, infeasible>>

\* PyDefaultSolver::solve
PySolve ==
    /\ phase = "py"
    /\ py.obj = "solver"
    /\ py.ncalls < MaxCalls
    /\ InnerSolve([op |-> "solve"], [op |-> "solve"])

\* PyDefaultSolver::solve_warm
PySolveWarm ==
    /\ phase = "py"
    /\ py.obj = "solver"
    /\ py.ncalls < MaxCalls
    /\ \E xguess \in XGuesses(VLen(solution.x)), sguess \in SGuesses(VLen(solution.s)),
          zguess \in ZGuesses(VLen(solution.z)), mode \in Modes, lambda \in Lambdas :
          InnerSolve([op |-> "solve_warm", xguess |-> xguess, sguess |-> sguess,
                      zguess |-> zguess, mode |-> mode, lambda |-> lambda],
                     solve_warm(xguess, sguess, zguess, mode, lambda))

NextPy ==
    \/ PyNew
    \/ PySolve
    \/ PySolveWarm

SpecPy == InitPy /\ [][NextPy]_vars

\* ------------------------------------------------------------ claims
\* the fill call of block b has run
Filled(b) == b \in DOMAIN blocks /\ phase \in {"fill", "done"} /\ b \notin pending

\* all fill calls have run, backshift_colptrs has not
AllFilled == phase = "fill" /\ pending = {}

\* the writes of the fill call of block b, as indices of log
LogOf(b) == {i \in DOMAIN log : log[i].blk = b}

\* where fill_block is to place the stored entry j of block b
PlacedRow(b, j) ==
    IF b.shape = "T" THEN ColOf(b.M, j) + b.initrow ELSE b.M.rowval[j] + b.initrow

PlacedCol(b, j) ==
    IF b.shape = "T" THEN b.M.rowval[j] + b.initcol ELSE ColOf(b.M, j) + b.initcol

\* C1: after colcounts, colcount_to_colptr and the matching fills, every cursor
\* colptr[c] stands at the original start of column c+1; after backshift_colptrs
\* colptr[0] = 0, colptr[n] is the number of entries written, and colptr is
\* non-decreasing.
C1_CanonicalAfterAssembly ==
    /\ AllFilled =>
          \A c \in 0..(n - 1) : colptr[c] = colcount_to_colptr(counts)[c + 1]
    /\ phase = "done" =>
          /\ colptr[0] = 0
          /\ colptr[n] = Len(log)
          /\ \A c \in 0..(n - 1) : ULeq(colptr[c], colptr[c + 1])

\* C2: once fill_block has placed M, and after every later fill call, slot
\* MtoKKT[j] holds M.nzval[j] at the placed row of entry j, and in the assembled
\* matrix that slot lies in the placed column.
C2_ReverseMapFidelity ==
    \A b \in DOMAIN blocks :
        (blocks[b].kind = "block" /\ Filled(b)) =>
            \A j \in DOMAIN blocks[b].M.nzval :
                LET d == maps[b][j]
                    c == PlacedCol(blocks[b], j)
                IN /\ nzval[d] = blocks[b].M.nzval[j]
                   /\ rowval[d] = PlacedRow(blocks[b], j)
                   /\ phase = "done" => (colptr[c] <= d /\ d < colptr[c + 1])

\* C4: colcount_block(M, initcol, N) adds nnz(column i of M) to colptr[initcol+i]
\* and nothing to any other count.
C4_ColcountBlockN ==
    \A b \in DOMAIN blocks :
        (blocks[b].kind = "block" /\ blocks[b].shape = "N") =>
            \A c \in DOMAIN counted[b] :
                LET i == c - blocks[b].initcol
                    M == blocks[b].M
                IN counted[b][c] =
                      IF i \in 0..(M.n - 1) THEN M.colptr[i + 1] - M.colptr[i] ELSE 0

\* C5: colcount_block(M, initcol, T) adds 1 to colptr[r + initcol] for each stored
\* row index r of M: the columns fill_block(M, .., initcol, T) writes to.
C5_ColcountBlockT ==
    \A b \in DOMAIN blocks :
        (blocks[b].kind = "block" /\ blocks[b].shape = "T") =>
            \A c \in DOMAIN counted[b] :
                counted[b][c] =
                    Cardinality({j \in DOMAIN blocks[b].M.rowval :
                                    blocks[b].M.rowval[j] + blocks[b].initcol = c})

\* C6: every fill write takes its offset from the cursor of the entry's column
\* and advances that same cursor; fill_missing_diag(M, initcol) writes
\* (i+initcol, i+initcol, 0) for each missing diagonal entry i and advances
\* colptr[i+initcol] by 1, as colcount_missing_diag counted.
C6_FillAdvancesOwnCursor ==
    /\ \A i \in DOMAIN log : log[i].adv = log[i].col
    /\ \A b \in DOMAIN blocks :
          (blocks[b].kind = "missing_diag" /\ Filled(b)) =>
              \A c \in DOMAIN counted[b] :
                  /\ Cardinality({i \in LogOf(b) : log[i].adv = c}) = counted[b][c]
                  /\ Cardinality({i \in LogOf(b) : log[i].col = c /\ log[i].row = c})
                        = counted[b][c]

\* what colcount_dense_triangle is to add to column c
DenseCount(b, c) ==
    IF c >= b.initcol /\ c < b.initcol + b.k
    THEN IF b.shape = "Triu" THEN (c - b.initcol) + 1 ELSE b.k - (c - b.initcol)
    ELSE 0

\* C7: colcount_dense_triangle adds 1..k (Triu) or k..1 (Tril) to the block's
\* columns only, and fill_dense_triangle writes into each column as many entries
\* as were counted and records k(k+1)/2 offsets in the reverse map.
C7_DenseTriangleCountsMatchFill ==
    \A b \in DOMAIN blocks :
        blocks[b].kind = "dense_triangle" =>
            /\ \A c \in DOMAIN counted[b] : counted[b][c] = DenseCount(blocks[b], c)
            /\ Filled(b) =>
                  /\ \A c \in DOMAIN counted[b] :
                        Cardinality({i \in LogOf(b) : log[i].col = c}) = counted[b][c]
                  /\ Cardinality({log[i].kidx : i \in LogOf(b)})
                        = (blocks[b].k * (blocks[b].k + 1)) \div 2

\* the (row, column) pattern fill_dense_triangle writes on an empty matrix with
\* room for blockdim entries in every column
DensePattern(offset, blockdim, shape) ==
    LET cols == offset + blockdim
        K0 == [ok |-> TRUE,
               colptr |-> [c \in 0..cols |-> c * blockdim],
               rowval |-> Vec(cols * blockdim, 0),
               nzval |-> Vec(cols * blockdim, 0),
               map |-> Vec((blockdim * (blockdim + 1)) \div 2, 0),
               log |-> << >>]
        K == fill_dense_triangle(K0, 0, offset, blockdim, shape)
    IN {<<K.log[i].row, K.log[i].col>> : i \in DOMAIN K.log}

\* C8: fill_dense_triangle writes only rows >= column with Tril and only rows <=
\* column with Triu, and for blockdim >= 2 the two shapes give different
\* patterns.
C8_TrilIsTransposeOfTriu ==
    \A b \in DOMAIN blocks :
        (blocks[b].kind = "dense_triangle" /\ Filled(b)) =>
            /\ \A i \in LogOf(b) :
                  IF blocks[b].shape = "Tril" THEN log[i].row >= log[i].col
                  ELSE log[i].row <= log[i].col
            /\ blocks[b].k >= 2 =>
                  DensePattern(blocks[b].initcol, blocks[b].k, "Triu")
                      # DensePattern(blocks[b].initcol, blocks[b].k, "Tril")

\* the number of times the fills advanced the cursor of column c
Advanced(c) == Cardinality({i \in DOMAIN log : log[i].adv = c})

\* every fill write advanced the cursor of its own column, and every cursor was
\* advanced by exactly its count
FillsMatchCounts ==
    /\ \A i \in DOMAIN log : log[i].adv = log[i].col
    /\ \A c \in 0..(n - 1) : Advanced(c) = counts[c]

\* C3: colcount_to_colptr leaves at colptr[c] the sum of the counts of the
\* columns before c, for c = n the total whatever colptr[n] held; and when the
\* fills advance each cursor by exactly its count, backshift_colptrs leaves at
\* colptr[c] the number of entries written to the columns before c.
C3_PrefixScanCanonical ==
    /\ (phase = "fill" /\ log = << >>) =>
          \A c \in 0..n : colptr[c] = SumTo(counts, c)
    /\ (phase = "done" /\ FillsMatchCounts) =>
          \A c \in 0..n : colptr[c] = Cardinality({i \in DOMAIN log : log[i].col < c})

\* an assembly that wrote to two columns, whose colptr[n] before the scan was
\* not the total
C3_Witness ==
    /\ phase = "done"
    /\ FillsMatchCounts
    /\ \E c, d \in 0..(n - 1) : c < d /\ counts[c] > 0 /\ counts[d] > 0
    /\ counts[n] # SumTo(counts, n)
    /\ colptr[n] = Len(log)

\* C9: in the upper-triangular KKT layout the assembled matrix has strictly
\* increasing row indices within every column.
C9_KKTColumnsSorted ==
    phase = "done" =>
        \A c \in 0..(n - 1) :
            \A j, k \in colptr[c]..(colptr[c + 1] - 1) :
                j < k => rowval[j] < rowval[k]

\* C10: a solution whose status is PrimalInfeasible or DualInfeasible has NaN in
\* obj_val and obj_val_dual; right after a finalize whose status is not an
\* infeasible one they are info.cost_primal and info.cost_dual.
C10_InfeasibleObjectivesNaN ==
    /\ solution.status \in {"PrimalInfeasible", "DualInfeasible"} =>
          (IsNaN(solution.obj_val) /\ IsNaN(solution.obj_val_dual))
    /\ (last.op = "finalize" /\ last.info.status \notin infeasible) =>
          (solution.obj_val = last.info.cost_primal /\ solution.obj_val_dual = last.info.cost_dual)

\* an infeasible status survives a save_prev_iterate that carried a solved status
C10_Witness ==
    /\ solution.status = "DualInfeasible"
    /\ last.op = "save_prev_iterate"
    /\ last.info.status = "Solved"
    /\ ~IsNaN(last.info.cost_primal)
    /\ IsNaN(solution.obj_val)
    /\ IsNaN(solution.obj_val_dual)
    /\ solution.xhist # << >>

\* the scale a call divides by: kappa for an infeasible status, tau otherwise
ScaleOf(call) ==
    IF call.info.status \in infeasible THEN call.variables.kappa ELSE call.variables.tau

\* C11: right after finalize, x = d*x/scale; with a reduce_map every position i of
\* z and s is written, a kept position keep_index[k] with z_k*e_k/(scale*c) and
\* s_k*einv_k/scale, a position with keep_logical false with s = infbound and
\* z = 0; without a reduce_map z = e*z/(scale*c) and s = einv*s/scale.
C11_FinalizeDescales ==
    last.op = "finalize" =>
        LET v == last.variables
            sc == ScaleOf(last)
            map == data.reduce_map
        IN /\ DOMAIN solution.x = DOMAIN v.x
           /\ \A i \in DOMAIN solution.x : solution.x[i] = RDiv(RMul(data.d[i], v.x[i]), sc)
           /\ IF map.some
              THEN \A i \in DOMAIN solution.z :
                      IF map.keep_logical[i]
                      THEN \E k \in DOMAIN map.keep_index :
                              /\ map.keep_index[k] = i
                              /\ solution.z[i] = RDiv(RMul(v.z[k], data.e[k]), RMul(sc, data.c))
                              /\ solution.s[i] = RDiv(RMul(v.s[k], data.einv[k]), sc)
                      ELSE solution.s[i] = data.infbound /\ solution.z[i] = Rat(0)
              ELSE /\ DOMAIN solution.z = DOMAIN v.z
                   /\ DOMAIN solution.s = DOMAIN v.s
                   /\ \A i \in DOMAIN solution.z :
                         /\ solution.z[i] = RDiv(RMul(data.e[i], v.z[i]), RMul(sc, data.c))
                         /\ solution.s[i] = RDiv(RMul(data.einv[i], v.s[i]), sc)

\* an infeasible finalize on equilibrated data whose presolve kept one row and
\* dropped another
C11_Witness ==
    /\ last.op = "finalize"
    /\ last.info.status = "PrimalInfeasible"
    /\ data.reduce_map.some
    /\ data.c = Rat(5)
    /\ \E i, j \in DOMAIN solution.z :
          /\ data.reduce_map.keep_logical[i]
          /\ ~data.reduce_map.keep_logical[j]
          /\ solution.s[j] = data.infbound
          /\ solution.z[i] # Rat(0)

\* C12: after new(a, b) the vector x has length a (the primal dimension comes
\* first) and the vectors z and s have length b.
C12_NewPrimalDimFirst ==
    last.op = "new" =>
        /\ VLen(solution.x) = last.args[1]
        /\ VLen(solution.z) = last.args[2]
        /\ VLen(solution.s) = last.args[2]

\* C13: solve_warm warm-starts the inner solver, with a guess holding exactly the
\* supplied x, s and z, if and only if all three are supplied; otherwise it runs
\* the cold solve() whatever mode and lambda are; either way it returns the
\* solver's current solution.
C13_SolveWarmFallsBack ==
    py.call.op = "solve_warm" =>
        LET c == py.call
            all == c.xguess # None /\ c.sguess # None /\ c.zguess # None
        IN /\ (py.inner.op = "solve_warm") <=> all
           /\ all => /\ py.inner.guess # None
                      /\ py.inner.guess[1].x = c.xguess[1]
                      /\ py.inner.guess[1].s = c.sguess[1]
                      /\ py.inner.guess[1].z = c.zguess[1]
                      /\ py.inner.mode = c.mode
                      /\ py.inner.lambda = c.lambda
           /\ ~all => py.inner.op = "solve"
           /\ py.ret # None
           /\ \A f \in DOMAIN solution \ {"status"} : py.ret[1][f] = solution[f]
           /\ py.ret[1].status = PySolverStatus[solution.status]

\* a second call on the solver that gave all three guesses, warm-started the
\* inner solver and returned a solved solution
C13_Witness ==
    /\ py.call.op = "solve_warm"
    /\ py.ncalls = 2
    /\ py.inner.op = "solve_warm"
    /\ py.inner.guess[1].s # py.inner.guess[1].z
    /\ py.ret[1].status = 1

\* C14: PyDefaultSolver::new with settings that fail validate() returns an error,
\* produces no solver and never reaches DefaultSolver::new; a solver exists only
\* when validation succeeded.
C14_InvalidSettingsNoSolver ==
    /\ (py.call.op = "new" /\ ~py.call.valid) =>
          (py.obj = "error" /\ py.inner_new = 0 /\ py.ret = None)
    /\ py.validated = Some(FALSE) => (py.obj = "error" /\ py.inner_new = 0)
    /\ (py.obj = "solver" \/ py.inner_new > 0) => py.validated = Some(TRUE)

\* a construction whose settings failed validate()
C14_Witness ==
    /\ py.call.op = "new"
    /\ py.validated = Some(FALSE)
    /\ py.obj = "error"
    /\ py.inner_new = 0

\* C15: after k save_prev_iterate calls since construction or the last reset
\* xhist, zhist and shist hold k entries each, in call order; entry j is the
\* descaled copy of the variables of call j (x*d/scale, z*e/(scale*c),
\* s*einv/scale, scale = kappa for an infeasible status, tau otherwise) and is as
\* long as the solution's x, z and s.
C15_HistoriesDescaled ==
    LET k == Len(last.saved) IN
    /\ Len(solution.xhist) = k
    /\ Len(solution.zhist) = k
    /\ Len(solution.shist) = k
    /\ \A j \in 1..k :
          LET v == last.saved[j].variables
              sc == IF last.saved[j].infeasible THEN v.kappa ELSE v.tau
          IN /\ solution.xhist[j] =
                    [i \in DOMAIN v.x |-> RDiv(RMul(v.x[i], data.d[i]), sc)]
             /\ solution.zhist[j] =
                    [i \in DOMAIN v.z |-> RDiv(RMul(v.z[i], data.e[i]), RMul(sc, data.c))]
             /\ solution.shist[j] =
                    [i \in DOMAIN v.s |-> RDiv(RMul(v.s[i], data.einv[i]), sc)]
             /\ VLen(solution.xhist[j]) = VLen(solution.x)
             /\ VLen(solution.zhist[j]) = VLen(solution.z)
             /\ VLen(solution.shist[j]) = VLen(solution.s)

\* the stored rows of column i of M
RowsOf(M, i) == {M.rowval[j] : j \in M.colptr[i]..(M.colptr[i + 1] - 1)}

\* column i of M is empty, or its last (largest) stored row is not i
LacksDiagonal(M, i) ==
    \/ RowsOf(M, i) = {}
    \/ (CHOOSE r \in RowsOf(M, i) : \A q \in RowsOf(M, i) : q <= r) # i

\* C16: colcount_missing_diag(M, initcol) adds 1 to colptr[i+initcol] exactly for
\* the columns i of M that are empty or whose last stored row is not i, and
\* nothing elsewhere, so it adds M.n - M.count_diagonal_entries() in total.
C16_MissingDiagComplementsDiagonal ==
    \A b \in DOMAIN blocks :
        blocks[b].kind = "missing_diag" =>
            LET M == blocks[b].M
                i0 == blocks[b].initcol
            IN /\ \A c \in DOMAIN counted[b] :
                     counted[b][c] =
                        IF (c - i0) \in 0..(M.n - 1) /\ LacksDiagonal(M, c - i0) THEN 1 ELSE 0
               /\ SumTo(counted[b], n + 1) = M.n - count_diagonal_entries(M)

\* a 2 x 2 matrix with one diagonal entry stored and one missing, counted at a
\* column offset
C16_Witness ==
    \E b \in DOMAIN blocks :
        /\ blocks[b].kind = "missing_diag"
        /\ blocks[b].initcol >= 1
        /\ blocks[b].M.n = 2
        /\ count_diagonal_entries(blocks[b].M) = 1
        /\ VLen(blocks[b].M.nzval) >= 2
        /\ SumTo(counted[b], n + 1) = 1

\* the fields of a solution other than the three histories
NonHistoryFields ==
    {"status", "obj_val", "obj_val_dual", "x", "z", "s", "iterations", "solve_time",
     "timings", "r_prim", "r_dual"}

\* C17: save_prev_iterate changes only xhist, zhist and shist: every other field
\* of the solution is the same before and after the call, whatever status the
\* info carries.
C17_SavePrevIterateFrame ==
    [][SavePrevIterate => \A f \in NonHistoryFields : solution'[f] = solution[f]]_vars

\* C18: reset gives every field other than x, z and s the value new gives it
\* (status Unsolved, objectives and residuals NaN, solve_time 0, iterations 0,
\* timings and histories empty) and leaves x, z and s unchanged.
C18_ResetRestoresNew ==
    [][Reset =>
          /\ \A f \in DOMAIN solution \ {"x", "z", "s"} :
                solution'[f] = new(VLen(solution.z), VLen(solution.x))[f]
          /\ solution'.status = "Unsolved"
          /\ IsNaN(solution'.obj_val) /\ IsNaN(solution'.obj_val_dual)
          /\ IsNaN(solution'.r_prim) /\ IsNaN(solution'.r_dual)
          /\ solution'.solve_time = Rat(0)
          /\ solution'.iterations = 0
          /\ solution'.timings = {}
          /\ solution'.xhist = << >> /\ solution'.zhist = << >> /\ solution'.shist = << >>
          /\ solution'.x = solution.x
          /\ solution'.z = solution.z
          /\ solution'.s = solution.s]_vars

\* a reset of a solution that a finalize had filled in
C18_Witness ==
    /\ last.op = "reset"
    /\ solution.status = "Unsolved"
    /\ solution.xhist = << >>
    /\ \E i \in DOMAIN solution.x : solution.x[i] # Rat(0)
    /\ \E i \in DOMAIN solution.s : solution.s[i] = data.infbound

====
